---- MODULE Spec2Model ----
(***************************************************************************)
(* State-machine model of the browser client: the article search view      *)
(* (pages/Search), its HTTP client with the single-shot retry on timeout,  *)
(* the pagination sequence generator, and the chat client's bounded        *)
(* exponential backoff (pages/Chat).                                       *)
(*                                                                         *)
(* React semantics used throughout: a handler reads the state of the       *)
(* render it was created in (its closure), so a value written with a       *)
(* setter is not visible to code that runs later in the same handler; the  *)
(* writes of one handler run (up to its next await) are applied together,  *)
(* the last write to a field winning.  A response is handled in one step:  *)
(* interceptor, then the awaiting handler's continuation, catch, finally.  *)
(***************************************************************************)
EXTENDS Integers, Sequences, FiniteSets, TLC

\* ------------------------------------------------------------------ bounds
MaxPages == 3         \* largest total_pages the backend answers with
MaxRequests == 2      \* user-issued requests per run (mount fetches excluded)
MaxTotal == 12        \* largest page count fed to getPageNumbers
MaxRetry == 5         \* largest config.retry given to the chat client
MaxLoadRequests == 3  \* user-issued requests per run of the dashboard-loading runs
MaxDashRequests == 2  \* user-issued requests per run of the save-and-rename runs

\* --------------------------------------------------------- program constants
PageSize == 10
Delta == 2
BackoffBase == 1000
BackoffCap == 10000
Dots == -1

Null == "null"
Undefined == -1
\* editingDashboardId null: no dashboard is being renamed
NoId == 0

Topics == {"Gender Inequality"}
ServerCountries == {"Jamaica"}

DefaultStart == "2024-01-01"
\* Variant: the default range ends with September.
DefaultEndSeptember == "2024-09-30"

DefaultEnd == "2024-12-31"
StartDates == {DefaultStart, "2024-03-01"}
EndDates == {DefaultEnd, "2024-09-30"}

\* Date.prototype.toISOString of a calendar date picked at local midnight (UTC).
toISOString(d) == <<d, "T00:00:00.000Z">>

Min(a, b) == IF a <= b THEN a ELSE b
Max(a, b) == IF a >= b THEN a ELSE b
Last(s) == s[Len(s)]

VARIABLES
  selectedCategories, selectedCountries, startDate, endDate,
  countries, isLoading, error,
  searchResults, currentPage, totalPages, totalArticles, isSearching,
  savedDashboards, isDashboardsLoading, dashboardError,
  editingDashboardId, editingName,
  alertMsg,      \* text of the last window.alert, Null when none yet
  issueLimit,    \* number of user-issued requests a run is followed for
  inflight,      \* requests handed to the search client and not yet settled
  nextId,        \* identifier of the next request
  lastOp,        \* the handler or response step taken last
  pgCurrent, pgTotal, pgOut, pgDone,          \* getPageNumbers harness
  \* one request on the chat client
  cfgRetry,      \* config.retry, Undefined when the caller gave none
  retryCount,    \* config._retryCount, Undefined until the first retry
  transmissions, \* times the request was put on the wire
  waited,        \* the backoff delays waited so far, in ms
  attemptErrors, \* the error of every failed attempt, in order
  chatError,     \* the error the client rejected the caller's promise with
  chatReq,       \* "none", "inflight", "waiting", "resolved" or "rejected"
  \* the chat session
  messages, input, conversationId,
  chatIsLoading, \* isLoading of the Chat component
  chatInflight,  \* chat requests handed to the chat client and not yet settled
  chatNextId,    \* identifier of the next chat request
  chatOp,        \* the chat handler or response step taken last
  fmtResponse, fmtOut, fmtDone                \* formatResponse harness

filterVars == <<selectedCategories, selectedCountries, startDate, endDate>>
resultVars == <<searchResults, totalPages, totalArticles>>
dashVars == <<savedDashboards, isDashboardsLoading, dashboardError>>
editVars == <<editingDashboardId, editingName>>
viewVars == <<filterVars, countries, isLoading, error, resultVars, currentPage,
              isSearching, dashVars, editVars, alertMsg, inflight, nextId, lastOp,
              issueLimit>>
pageVars == <<pgCurrent, pgTotal, pgOut, pgDone>>
retryVars == <<cfgRetry, retryCount, transmissions, waited, attemptErrors, chatError,
               chatReq>>
sessionVars == <<messages, input, conversationId, chatIsLoading, chatInflight,
                 chatNextId, chatOp>>
formatVars == <<fmtResponse, fmtOut, fmtDone>>
chatVars == <<retryVars, sessionVars, formatVars>>
\* what no handler of the search form touches
harnessVars == <<pageVars, chatVars, editVars, issueLimit>>
vars == <<viewVars, pageVars, chatVars>>


\* ------------------------------------------------------- transport failures
\* An axios error as the interceptors see it: error.code, error.response?.status
\* (0: no response), error.response?.data?.detail (Null: absent), error.message.
NoFail == [code |-> "", status |-> 0, detail |-> Null, message |-> ""]
Timeout == [code |-> "ECONNABORTED", status |-> 0, detail |-> Null,
            message |-> "timeout of 120000ms exceeded"]
NetworkDown == [code |-> "ERR_NETWORK", status |-> 0, detail |-> Null,
                message |-> "Network Error"]
Http404 == [code |-> "ERR_BAD_REQUEST", status |-> 404, detail |-> "Not Found",
            message |-> "Request failed with status code 404"]
Http403 == [code |-> "ERR_BAD_REQUEST", status |-> 403, detail |-> Null,
            message |-> "Request failed with status code 403"]
Http500 == [code |-> "ERR_BAD_RESPONSE", status |-> 500, detail |-> "Internal Server Error",
            message |-> "Request failed with status code 500"]
Http502 == [code |-> "ERR_BAD_RESPONSE", status |-> 502, detail |-> Null,
            message |-> "Request failed with status code 502"]
Failures == {Timeout, NetworkDown, Http404, Http403, Http500, Http502}

MsgRetrying == "Request is taking longer than usual. Retrying..."
MsgStillSlow == "The request is still taking too long. Please try again or contact support if the issue persists."
MsgNotFound == "The requested resource was not found. Please try again later."
MsgNetwork == "Network error: Unable to connect to the server. Please check your connection and try again."
MsgDenied == "Access denied. Please check your permissions and try again."
MsgTimeout == "The request took too long to complete. We will automatically retry. If the problem persists, please try again later."
MsgInvalidData == "Invalid data format received"
MsgSelectFirst == "Please select at least one category and one country before saving"
MsgSaveFailed == "Failed to save dashboard"
MsgRenameFailed == "Failed to update dashboard name"

\* The message the search client's response interceptor writes for a failure
\* it does not retry.
Classify(f) ==
  IF f.status = 404 THEN MsgNotFound
  ELSE IF f.code = "ERR_NETWORK" THEN MsgNetwork
  ELSE IF f.status = 403 THEN MsgDenied
  ELSE IF f.code = "ECONNABORTED" THEN MsgTimeout
  ELSE IF f.detail # Null THEN f.detail
  ELSE f.message

\* Variant: the interceptor resends after any first failure.
ShouldRetryAnyFailure(f, r) == ~r.retry

\* The retry condition of the search client's response interceptor.
ShouldRetry(f, r) == f.code = "ECONNABORTED" /\ ~r.retry

\* --------------------------------------------------------------- requests
\* An absent (undefined) date string.
NoDate == <<>>

NoParams == [page |-> 0, page_size |-> 0, category |-> {}, country |-> {},
             start_date |-> NoDate, end_date |-> NoDate]

Req(id, kind, params, snap) ==
  [id |-> id, kind |-> kind, params |-> params, retry |-> FALSE, sent |-> 1,
   snap |-> snap]

\* lastOp: the step taken last.  n: the page asked of handlePageChange, the
\* dashboard loaded, or the number of transmissions of the request a response
\* step settled; id, kind: the request the step issued or settled.
Op(op, n, id, f) == [op |-> op, n |-> n, id |-> id, fail |-> f, kind |-> ""]
OpR(op, r, f) == [op |-> op, n |-> r.sent, id |-> r.id, fail |-> f, kind |-> r.kind]

MountRequests == 2
CanIssue == nextId <= MountRequests + issueLimit

\* ------------------------------------------------------ backend's answers
\* GET /keyword-search/search: total_pages, the articles of the asked page
\* (named by page number) and the total count.
SearchData(tp, page) ==
  [articles |-> IF page >= 1 /\ page <= tp THEN <<page>> ELSE <<>>,
   total_pages |-> tp,
   total |-> tp * PageSize]

Dash(id, name, kw, ct, sd, ed) ==
  [_id |-> id, dashboard_name |-> name, selected_keywords |-> kw,
   selected_countries |-> ct, start_date |-> sd, end_date |-> ed]

\* GET /keyword-search/dashboards: one dashboard with date bounds, one without.
StoredDashboards ==
  << Dash(1, "Dashboard 1", Topics, ServerCountries,
          toISOString("2024-03-01"), toISOString("2024-09-30")),
     Dash(2, "Dashboard 2", Topics, {}, NoDate, NoDate) >>
DashboardLists == { SubSeq(StoredDashboards, 1, k) : k \in 0..Len(StoredDashboards) }

\* POST /keyword-search/dashboards: the stored dashboard for a posted body.
CreatedDash(r) ==
  Dash(10 + r.id, "New Dashboard", r.params.category, r.params.country,
       r.params.start_date, r.params.end_date)

\* new Date(isoString)
ParseDate(s) == s[1]


\* ------------------------------------------------------------ search view
\* State after the first render and its two mount effects (fetchCountries,
\* fetchDashboards), which run before any user event.
ViewInit ==
  /\ selectedCategories = {} /\ selectedCountries = {}
  /\ startDate = DefaultStart /\ endDate = DefaultEnd
  /\ countries = {} /\ isLoading = TRUE /\ error = Null
  /\ searchResults = <<>> /\ currentPage = 1 /\ totalPages = 1 /\ totalArticles = 0
  /\ isSearching = FALSE
  /\ savedDashboards = <<>> /\ isDashboardsLoading = TRUE /\ dashboardError = Null
  /\ editingDashboardId = NoId /\ editingName = ""
  /\ alertMsg = Null
  /\ inflight = { Req(1, "countries", NoParams, <<>>), Req(2, "dashboards", NoParams, <<>>) }
  /\ nextId = MountRequests + 1
  /\ lastOp = Op("mount", 0, 0, NoFail)

handleCategorySelect(values) ==
  /\ selectedCategories' = values
  /\ lastOp' = Op("selectCategories", 0, 0, NoFail)
  /\ UNCHANGED <<harnessVars, selectedCountries, startDate, endDate, countries, isLoading, error,
                 resultVars, currentPage, isSearching, dashVars, alertMsg, inflight, nextId>>

handleCountrySelect(values) ==
  /\ selectedCountries' = values
  /\ lastOp' = Op("selectCountries", 0, 0, NoFail)
  /\ UNCHANGED <<harnessVars, selectedCategories, startDate, endDate, countries, isLoading, error,
                 resultVars, currentPage, isSearching, dashVars, alertMsg, inflight, nextId>>

setStartDate(d) ==
  /\ startDate' = d
  /\ lastOp' = Op("setStartDate", 0, 0, NoFail)
  /\ UNCHANGED <<harnessVars, selectedCategories, selectedCountries, endDate, countries, isLoading, error,
                 resultVars, currentPage, isSearching, dashVars, alertMsg, inflight, nextId>>

setEndDate(d) ==
  /\ endDate' = d
  /\ lastOp' = Op("setEndDate", 0, 0, NoFail)
  /\ UNCHANGED <<harnessVars, selectedCategories, selectedCountries, startDate, countries, isLoading, error,
                 resultVars, currentPage, isSearching, dashVars, alertMsg, inflight, nextId>>

\* params of handleSearch: read from the closure, i.e. from the state of the
\* render in which the running handler was created.
SearchParams ==
  [page |-> currentPage, page_size |-> PageSize,
   category |-> selectedCategories, country |-> selectedCountries,
   start_date |-> toISOString(startDate), end_date |-> toISOString(endDate)]

\* Variant: a new article search cancels the ones still outstanding.
IssueCancelsEarlier(reqs, r) ==
  { q \in reqs : q.kind \notin {"search", "load"} } \cup {r}

\* await api.get('/keyword-search/search', { params }): the request joins the
\* outstanding ones.
Issue(reqs, r) == reqs \cup {r}

\* The synchronous part of handleSearch, up to its await.
handleSearchStart ==
  /\ isSearching' = TRUE
  /\ error' = Null
  /\ inflight' = Issue(inflight, Req(nextId, "search", SearchParams, <<>>))
  /\ nextId' = nextId + 1

\* The "Search Articles" button; it is disabled while isSearching.
handleSearch ==
  /\ CanIssue
  /\ ~isSearching
  /\ handleSearchStart
  /\ lastOp' = Op("search", 0, nextId, NoFail)
  /\ UNCHANGED <<harnessVars, filterVars, countries, isLoading, resultVars, currentPage, dashVars, alertMsg>>

\* Variant: the lower bound of the range check is missing.
PageInRangeNoLowerBound(newPage, total) == newPage <= total

PageInRange(newPage, total) == newPage >= 1 /\ newPage <= total

PageArgs == -1 .. (MaxPages + 1)

handlePageChange(newPage) ==
  IF PageInRange(newPage, totalPages)
  THEN /\ CanIssue
       /\ currentPage' = newPage
       /\ handleSearchStart
       /\ lastOp' = Op("changePage", newPage, nextId, NoFail)
       /\ UNCHANGED <<harnessVars, filterVars, countries, isLoading, resultVars, dashVars, alertMsg>>
  ELSE /\ lastOp' = Op("changePage", newPage, 0, NoFail)
       /\ UNCHANGED <<harnessVars, filterVars, countries, isLoading, error, resultVars, currentPage,
                      isSearching, dashVars, alertMsg, inflight, nextId>>

\* Variant: only the category selection is validated.
SaveValidCategoriesOnly(cats, ctys) == cats # {}

SaveValid(cats, ctys) == cats # {} /\ ctys # {}

SaveBody ==
  [page |-> 0, page_size |-> 0,
   category |-> selectedCategories, country |-> selectedCountries,
   start_date |-> toISOString(startDate), end_date |-> toISOString(endDate)]

handleSaveQuery ==
  IF ~SaveValid(selectedCategories, selectedCountries)
  THEN /\ alertMsg' = MsgSelectFirst
       /\ lastOp' = Op("saveQuery", 0, 0, NoFail)
       /\ UNCHANGED <<harnessVars, filterVars, countries, isLoading, error, resultVars, currentPage,
                      isSearching, dashVars, inflight, nextId>>
  ELSE /\ CanIssue
       /\ inflight' = inflight \cup { Req(nextId, "create", SaveBody, savedDashboards) }
       /\ nextId' = nextId + 1
       /\ lastOp' = Op("saveQuery", 0, nextId, NoFail)
       /\ UNCHANGED <<harnessVars, filterVars, countries, isLoading, error, resultVars, currentPage,
                      isSearching, dashVars, alertMsg>>

LoadParams(d) ==
  [page |-> 1, page_size |-> PageSize,
   category |-> d.selected_keywords, country |-> d.selected_countries,
   start_date |-> d.start_date, end_date |-> d.end_date]

\* The synchronous part of loadDashboard, up to its await.
loadDashboard(d) ==
  /\ CanIssue
  /\ selectedCategories' = d.selected_keywords
  /\ selectedCountries' = d.selected_countries
  /\ startDate' = IF d.start_date # NoDate THEN ParseDate(d.start_date) ELSE startDate
  /\ endDate' = IF d.end_date # NoDate THEN ParseDate(d.end_date) ELSE endDate
  /\ isSearching' = TRUE
  /\ inflight' = Issue(inflight, Req(nextId, "load", LoadParams(d), <<>>))
  /\ nextId' = nextId + 1
  /\ lastOp' = Op("loadDashboard", d._id, nextId, NoFail)
  /\ UNCHANGED <<harnessVars, countries, isLoading, error, resultVars, currentPage, dashVars, alertMsg>>

handleClearSearch ==
  /\ selectedCategories' = {} /\ selectedCountries' = {}
  /\ startDate' = DefaultStart /\ endDate' = DefaultEnd
  /\ searchResults' = <<>> /\ totalPages' = 1 /\ totalArticles' = 0
  /\ currentPage' = 1
  /\ error' = Null
  /\ lastOp' = Op("clear", 0, 0, NoFail)
  /\ UNCHANGED <<harnessVars, countries, isLoading, isSearching, dashVars, alertMsg, inflight, nextId>>


\* ---------------------------------------------------- responses and errors
\* Success of a search request: the continuation of handleSearch after its
\* await, then its finally.
searchResolved(r, tp) ==
  /\ r \in inflight /\ r.kind = "search"
  /\ LET data == SearchData(tp, r.params.page) IN
       /\ searchResults' = data.articles
       /\ totalPages' = data.total_pages
       /\ totalArticles' = data.total
  /\ isSearching' = FALSE
  /\ inflight' = inflight \ {r}
  /\ lastOp' = OpR("searchResolved", r, NoFail)
  /\ UNCHANGED <<harnessVars, filterVars, countries, isLoading, error, currentPage, dashVars, alertMsg, nextId>>

\* Success of the request of loadDashboard.
loadResolved(r, tp) ==
  /\ r \in inflight /\ r.kind = "load"
  /\ LET data == SearchData(tp, r.params.page) IN
       /\ searchResults' = data.articles
       /\ totalPages' = data.total_pages
       /\ totalArticles' = data.total
  /\ currentPage' = 1
  /\ isSearching' = FALSE
  /\ inflight' = inflight \ {r}
  /\ lastOp' = OpR("loadResolved", r, NoFail)
  /\ UNCHANGED <<harnessVars, filterVars, countries, isLoading, error, dashVars, alertMsg, nextId>>

\* Success of fetchCountries; wellFormed: data.countries is an array.
countriesResolved(r, wellFormed) ==
  /\ r \in inflight /\ r.kind = "countries"
  /\ IF wellFormed
     THEN countries' = ServerCountries /\ UNCHANGED error
     ELSE error' = MsgInvalidData /\ UNCHANGED countries
  /\ isLoading' = FALSE
  /\ inflight' = inflight \ {r}
  /\ lastOp' = OpR("countriesResolved", r, NoFail)
  /\ UNCHANGED <<harnessVars, filterVars, resultVars, currentPage, isSearching, dashVars, alertMsg, nextId>>

\* Success of fetchDashboards.
dashboardsResolved(r, list) ==
  /\ r \in inflight /\ r.kind = "dashboards"
  /\ savedDashboards' = list
  /\ isDashboardsLoading' = FALSE
  /\ inflight' = inflight \ {r}
  /\ lastOp' = OpR("dashboardsResolved", r, NoFail)
  /\ UNCHANGED <<harnessVars, filterVars, countries, isLoading, error, resultVars, currentPage,
                 isSearching, dashboardError, alertMsg, nextId>>

\* Success of the POST of handleSaveQuery: the list of the handler's closure
\* with the returned dashboard appended.
createResolved(r) ==
  /\ r \in inflight /\ r.kind = "create"
  /\ savedDashboards' = Append(r.snap, CreatedDash(r))
  /\ inflight' = inflight \ {r}
  /\ lastOp' = OpR("createResolved", r, NoFail)
  /\ UNCHANGED <<harnessVars, filterVars, countries, isLoading, error, resultVars, currentPage,
                 isSearching, isDashboardsLoading, dashboardError, alertMsg, nextId>>

\* --------------------------------------------------- renaming a dashboard
\* The names the user types into the rename field.
EditNames == {"Renamed"}

handleEditClick(d) ==
  /\ editingDashboardId' = d._id
  /\ editingName' = d.dashboard_name
  /\ lastOp' = Op("editClick", d._id, 0, NoFail)
  /\ UNCHANGED <<pageVars, chatVars, issueLimit, filterVars, countries, isLoading, error,
                 resultVars, currentPage, isSearching, dashVars, alertMsg, inflight, nextId>>

\* The rename field, shown for the entry whose _id is editingDashboardId.
setEditingName(name) ==
  /\ \E i \in 1..Len(savedDashboards) : savedDashboards[i]._id = editingDashboardId
  /\ editingName' = name
  /\ lastOp' = Op("setEditingName", editingDashboardId, 0, NoFail)
  /\ UNCHANGED <<pageVars, chatVars, issueLimit, filterVars, countries, isLoading, error,
                 resultVars, currentPage, isSearching, dashVars, alertMsg, inflight, nextId,
                 editingDashboardId>>

\* The X button of the entry being renamed.
handleEditCancel ==
  /\ \E i \in 1..Len(savedDashboards) : savedDashboards[i]._id = editingDashboardId
  /\ editingDashboardId' = NoId
  /\ editingName' = ""
  /\ lastOp' = Op("editCancel", editingDashboardId, 0, NoFail)
  /\ UNCHANGED <<pageVars, chatVars, issueLimit, filterVars, countries, isLoading, error,
                 resultVars, currentPage, isSearching, dashVars, alertMsg, inflight, nextId>>

\* Body and target of PATCH /keyword-search/dashboards/{id}.
RenameParams(dashboardId, name) == [dashboard_id |-> dashboardId, dashboard_name |-> name]

\* The check button of the entry being renamed: handleEditSave up to its await.
handleEditSave(dashboardId) ==
  /\ CanIssue
  /\ dashboardId = editingDashboardId
  /\ \E i \in 1..Len(savedDashboards) : savedDashboards[i]._id = dashboardId
  /\ inflight' = inflight \cup
       { Req(nextId, "rename", RenameParams(dashboardId, editingName), savedDashboards) }
  /\ nextId' = nextId + 1
  /\ lastOp' = Op("editSave", dashboardId, nextId, NoFail)
  /\ UNCHANGED <<pageVars, chatVars, issueLimit, filterVars, countries, isLoading, error,
                 resultVars, currentPage, isSearching, dashVars, alertMsg, editVars>>

\* PATCH answer: the dashboard of that id, as the backend holds it, renamed.
RenamedDash(r) ==
  LET i == CHOOSE k \in 1..Len(r.snap) : r.snap[k]._id = r.params.dashboard_id
  IN [r.snap[i] EXCEPT !.dashboard_name = r.params.dashboard_name]

\* savedDashboards.map(...) over the list of the handler's closure.
ReplaceById(list, id, d) ==
  [k \in 1..Len(list) |-> IF list[k]._id = id THEN d ELSE list[k]]

\* Success of the PATCH of handleEditSave.
renameResolved(r) ==
  /\ r \in inflight /\ r.kind = "rename"
  /\ savedDashboards' = ReplaceById(r.snap, r.params.dashboard_id, RenamedDash(r))
  /\ editingDashboardId' = NoId
  /\ editingName' = ""
  /\ inflight' = inflight \ {r}
  /\ lastOp' = OpR("renameResolved", r, NoFail)
  /\ UNCHANGED <<pageVars, chatVars, issueLimit, filterVars, countries, isLoading, error,
                 resultVars, currentPage, isSearching, isDashboardsLoading, dashboardError,
                 alertMsg, nextId>>

\* Response interceptor, retry branch: mark the request and send it again at once.
requestRetried(r, f) ==
  /\ r \in inflight
  /\ ShouldRetry(f, r)
  /\ error' = MsgRetrying
  /\ inflight' = (inflight \ {r}) \cup { [r EXCEPT !.retry = TRUE, !.sent = @ + 1] }
  /\ lastOp' = OpR("retried", r, f)
  /\ UNCHANGED <<harnessVars, filterVars, countries, isLoading, resultVars, currentPage, isSearching,
                 dashVars, alertMsg, nextId>>

\* Variant: the catch block resets the error instead of setting it.
CatchClearsError(kind, f) == <<Null>>

\* What the catch block of the awaiting handler writes to error.
CatchWrites(kind, f) ==
  IF kind \in {"countries", "search", "load"} THEN <<f.message>> ELSE <<>>

\* All writes to error made while a failure that is not retried travels from
\* the interceptor (and, for a resent request, the interceptor's catch around
\* the resend) to the handler's catch, in program order.
ErrorWrites(r, f) ==
  <<Classify(f)>> \o (IF r.retry THEN <<MsgStillSlow>> ELSE <<>>) \o CatchWrites(r.kind, f)

\* Variant: only the finally of loadDashboard resets the flag.
EndsSearchLoadOnly(kind) == kind = "load"

\* The handlers whose finally runs setIsSearching(false): handleSearch and
\* loadDashboard.
EndsSearch(kind) == kind \in {"search", "load"}

\* A failure that is surfaced: interceptor classification, then the handler's
\* catch and finally.
requestFailed(r, f) ==
  /\ r \in inflight
  /\ ~ShouldRetry(f, r)
  /\ error' = Last(ErrorWrites(r, f))
  /\ isLoading' = IF r.kind = "countries" THEN FALSE ELSE isLoading
  /\ isSearching' = IF EndsSearch(r.kind) THEN FALSE ELSE isSearching
  /\ dashboardError' = IF r.kind = "dashboards" THEN f.message ELSE dashboardError
  /\ isDashboardsLoading' = IF r.kind = "dashboards" THEN FALSE ELSE isDashboardsLoading
  /\ alertMsg' = IF r.kind = "create" THEN MsgSaveFailed
                 ELSE IF r.kind = "rename" THEN MsgRenameFailed
                 ELSE alertMsg
  /\ inflight' = inflight \ {r}
  /\ lastOp' = OpR("failed", r, f)
  /\ UNCHANGED <<harnessVars, filterVars, countries, resultVars, currentPage, savedDashboards, nextId>>

\* --------------------------------------------------- harnesses' idle state
PagesIdle == pgCurrent = 1 /\ pgTotal = 1 /\ pgOut = <<>> /\ pgDone = FALSE
RetryIdle ==
  /\ cfgRetry = Undefined /\ retryCount = Undefined /\ transmissions = 0
  /\ waited = <<>> /\ attemptErrors = <<>> /\ chatError = NoFail /\ chatReq = "none"

\* A response as the chat endpoint sends it.
ChatResponse(answer, sources, id) ==
  [response |-> answer, sources |-> sources, conversation_id |-> id]

NoResponse == ChatResponse(<<>>, <<>>, Null)

\* chatOp: the chat step taken last.  id: the request it sent or settled;
\* data, fail: the response or the error that settled it.
ChatOp(op, id, data, f) == [op |-> op, id |-> id, data |-> data, fail |-> f]

\* Text is a sequence of characters or tokens; a fixed text is one token.
Greeting ==
  <<"Hello! I can help you analyze gender-related news and trends in the Caribbean. What would you like to know?">>

\* The Chat component after construction.
SessionInit ==
  /\ messages = <<[type |-> "bot", content |-> Greeting]>>
  /\ input = <<>>
  /\ conversationId = Null
  /\ chatIsLoading = FALSE
  /\ chatInflight = {}
  /\ chatNextId = 1
  /\ chatOp = ChatOp("mount", 0, NoResponse, NoFail)

FormatIdle == fmtResponse = NoResponse /\ fmtOut = <<>> /\ fmtDone = FALSE

ChatIdle == RetryIdle /\ SessionInit /\ FormatIdle

Init == ViewInit /\ issueLimit = MaxRequests /\ PagesIdle /\ ChatIdle

UserKinds == {"search", "load", "create", "rename"}

\* Searching and paging against a backend that answers the two mount fetches:
\* the user picks categories, searches, changes page and clears; every
\* request the user causes can fail in every way.
Next ==
  \/ \E r \in inflight : countriesResolved(r, TRUE)
  \/ \E r \in inflight : dashboardsResolved(r, StoredDashboards)
  \/ \E v \in SUBSET Topics : handleCategorySelect(v)
  \/ handleSearch
  \/ \E n \in PageArgs : handlePageChange(n)
  \/ handleClearSearch
  \/ \E r \in inflight, tp \in 0..MaxPages : searchResolved(r, tp)
  \/ \E r \in inflight, f \in Failures : r.kind \in UserKinds /\ requestRetried(r, f)
  \/ \E r \in inflight, f \in Failures : r.kind \in UserKinds /\ requestFailed(r, f)

Spec == Init /\ [][Next]_vars

\* Saving dashboards: the user picks categories, countries and a start date
\* and saves the filter.
NextSave ==
  \/ \E r \in inflight : countriesResolved(r, TRUE)
  \/ \E r \in inflight : dashboardsResolved(r, StoredDashboards)
  \/ \E v \in SUBSET Topics : handleCategorySelect(v)
  \/ \E v \in SUBSET countries : handleCountrySelect(v)
  \/ \E d \in StartDates : setStartDate(d)
  \/ handleSaveQuery
  \/ \E r \in inflight : createResolved(r)
  \/ \E r \in inflight, f \in Failures : r.kind \in UserKinds /\ requestRetried(r, f)
  \/ \E r \in inflight, f \in Failures : r.kind \in UserKinds /\ requestFailed(r, f)

SpecSave == Init /\ [][NextSave]_vars

\* The failures the save-and-rename runs are followed under.
DashFailures == {Timeout}

\* Saving and renaming dashboards: the user picks categories and countries,
\* saves the filter and renames saved dashboards.
NextDash ==
  \/ \E r \in inflight : countriesResolved(r, TRUE)
  \/ \E r \in inflight : dashboardsResolved(r, StoredDashboards)
  \/ \E v \in SUBSET Topics : handleCategorySelect(v)
  \/ \E v \in SUBSET countries : handleCountrySelect(v)
  \/ handleSaveQuery
  \/ \E r \in inflight : createResolved(r)
  \/ \E i \in 1..Len(savedDashboards) : handleEditClick(savedDashboards[i])
  \/ \E name \in EditNames : setEditingName(name)
  \/ handleEditCancel
  \/ \E i \in 1..Len(savedDashboards) : handleEditSave(savedDashboards[i]._id)
  \/ \E r \in inflight : renameResolved(r)
  \/ \E r \in inflight, f \in DashFailures : r.kind \in UserKinds /\ requestRetried(r, f)
  \/ \E r \in inflight, f \in DashFailures : r.kind \in UserKinds /\ requestFailed(r, f)

InitDash == ViewInit /\ issueLimit = MaxDashRequests /\ PagesIdle /\ ChatIdle

SpecDash == InitDash /\ [][NextDash]_vars

\* Loading dashboards, paging and clearing: the backend answers the mount
\* fetches, answers searches with one or two pages of results, and fails with
\* a timeout or a server error.
LoadPages == {1, 2}
LoadFailures == {Timeout, Http500}

NextLoad ==
  \/ \E r \in inflight : countriesResolved(r, TRUE)
  \/ \E r \in inflight : dashboardsResolved(r, StoredDashboards)
  \/ \E n \in 1..2 : handlePageChange(n)
  \/ \E i \in 1..Len(savedDashboards) : loadDashboard(savedDashboards[i])
  \/ handleClearSearch
  \/ \E r \in inflight, tp \in LoadPages : searchResolved(r, tp)
  \/ \E r \in inflight, tp \in LoadPages : loadResolved(r, tp)
  \/ \E r \in inflight, f \in LoadFailures : r.kind \in UserKinds /\ requestRetried(r, f)
  \/ \E r \in inflight, f \in LoadFailures : r.kind \in UserKinds /\ requestFailed(r, f)

InitLoad == ViewInit /\ issueLimit = MaxLoadRequests /\ PagesIdle /\ ChatIdle

SpecLoad == InitLoad /\ [][NextLoad]_vars

\* The mount fetches against a backend that can fail in every way, with a
\* user who picks a date range, searches and clears meanwhile.
NextMount ==
  \/ \E d \in StartDates : setStartDate(d)
  \/ \E d \in EndDates : setEndDate(d)
  \/ \E r \in inflight, w \in BOOLEAN : countriesResolved(r, w)
  \/ \E r \in inflight, l \in DashboardLists : dashboardsResolved(r, l)
  \/ handleSearch
  \/ handleClearSearch
  \/ \E r \in inflight, tp \in 0..MaxPages : searchResolved(r, tp)
  \/ \E r \in inflight, f \in Failures : requestRetried(r, f)
  \/ \E r \in inflight, f \in Failures : requestFailed(r, f)

SpecMount == Init /\ [][NextMount]_vars

\* ------------------------------------------------------- getPageNumbers
\* Variant: the last page is not forced into the range.
InRangeNoLastPage(i, current, total) ==
  i = 1 \/ (i >= current - Delta /\ i <= current + Delta)

\* The condition of the first loop of getPageNumbers.
InRange(i, current, total) ==
  i = 1 \/ i = total \/ (i >= current - Delta /\ i <= current + Delta)

RECURSIVE RangeFrom(_, _, _)
\* The first loop from index i on: range.
RangeFrom(i, current, total) ==
  IF i > total THEN <<>>
  ELSE (IF InRange(i, current, total) THEN <<i>> ELSE <<>>)
       \o RangeFrom(i + 1, current, total)

\* Variant: every gap, also one of a single page, becomes dots.
GapDotsOnly(l, x) ==
  IF l = 0 THEN <<>>
  ELSE IF x - l # 1 THEN <<Dots>>
  ELSE <<>>

\* What the second loop pushes before range[i] = x; l = 0 stands for the
\* still undefined l, which `if (l)` treats alike.
Gap(l, x) ==
  IF l = 0 THEN <<>>
  ELSE IF x - l = 2 THEN <<l + 1>>
  ELSE IF x - l # 1 THEN <<Dots>>
  ELSE <<>>

RECURSIVE WithDotsFrom(_, _, _)
\* The second loop from index i on (1-based): rangeWithDots.
WithDotsFrom(i, l, range) ==
  IF i > Len(range) THEN <<>>
  ELSE Gap(l, range[i]) \o <<range[i]>> \o WithDotsFrom(i + 1, range[i], range)

getPageNumbers(current, total) == WithDotsFrom(1, 0, RangeFrom(1, current, total))

PagesInit ==
  /\ pgCurrent \in 1..MaxTotal /\ pgTotal \in 1..MaxTotal
  /\ pgOut = <<>> /\ pgDone = FALSE

\* The pagination bar is rendered: getPageNumbers(currentPage, totalPages).
renderPageNumbers ==
  /\ ~pgDone
  /\ pgOut' = getPageNumbers(pgCurrent, pgTotal)
  /\ pgDone' = TRUE
  /\ UNCHANGED <<pgCurrent, pgTotal, viewVars, chatVars>>

NextPages == renderPageNumbers

InitPages == ViewInit /\ issueLimit = MaxRequests /\ PagesInit /\ ChatIdle

SpecPages == InitPages /\ [][NextPages]_vars

\* ------------------------------------------------- chat client's backoff
ChatTimeout == [code |-> "ECONNABORTED", status |-> 0, detail |-> Null,
                message |-> "timeout of 60000ms exceeded"]
ChatFailures == {ChatTimeout, NetworkDown, Http500}

\* Variant: the retry limit is compared with > instead of >=.
GiveUpOneLate(retry, count) ==
  \/ retry = Undefined \/ retry = 0
  \/ (count # Undefined /\ count > retry)

\* !config.retry || config._retryCount >= config.retry
GiveUp(retry, count) ==
  \/ retry = Undefined \/ retry = 0
  \/ (count # Undefined /\ count >= retry)

\* Variant: the subtraction binds to the product.
BackoffMisplacedMinus(count) == Min(BackoffBase * 2 ^ count - 1, BackoffCap)

\* Math.min(1000 * (Math.pow(2, count) - 1), 10000)
Backoff(count) == Min(BackoffBase * (2 ^ count - 1), BackoffCap)

\* A request is handed to the chat client with or without a retry limit.
RetryInit ==
  /\ cfgRetry \in {Undefined} \cup (0..MaxRetry)
  /\ retryCount = Undefined
  /\ transmissions = 1
  /\ waited = <<>> /\ attemptErrors = <<>> /\ chatError = NoFail
  /\ chatReq = "inflight"

\* Response interceptor, error handler, up to its await or its reject.
chatAttemptFailed(f) ==
  /\ chatReq = "inflight"
  /\ attemptErrors' = Append(attemptErrors, f)
  /\ IF GiveUp(cfgRetry, retryCount)
     THEN /\ chatReq' = "rejected"
          /\ chatError' = f
          /\ UNCHANGED <<retryCount, waited>>
     ELSE LET count == (IF retryCount = Undefined THEN 0 ELSE retryCount) + 1 IN
          /\ retryCount' = count
          /\ waited' = Append(waited, Backoff(count))
          /\ chatReq' = "waiting"
          /\ UNCHANGED chatError
  /\ UNCHANGED <<cfgRetry, transmissions, viewVars, pageVars, sessionVars, formatVars>>

\* The backoff timer fires: return api(config).
chatBackoffElapsed ==
  /\ chatReq = "waiting"
  /\ transmissions' = transmissions + 1
  /\ chatReq' = "inflight"
  /\ UNCHANGED <<cfgRetry, retryCount, waited, attemptErrors, chatError, viewVars, pageVars,
                 sessionVars, formatVars>>

chatAttemptSucceeded ==
  /\ chatReq = "inflight"
  /\ chatReq' = "resolved"
  /\ UNCHANGED <<cfgRetry, retryCount, transmissions, waited, attemptErrors, chatError,
                 viewVars, pageVars, sessionVars, formatVars>>

NextRetry ==
  \/ \E f \in ChatFailures : chatAttemptFailed(f)
  \/ chatBackoffElapsed
  \/ chatAttemptSucceeded

InitRetry ==
  ViewInit /\ issueLimit = MaxRequests /\ PagesIdle /\ RetryInit /\ SessionInit /\ FormatIdle

SpecRetry == InitRetry /\ [][NextRetry]_vars

\* ------------------------------------------------------- formatResponse
\* An answer text is a sequence of tokens: a run of text without line breaks
\* and without "Sources:", a line break, or the word "Sources:".
NL == "\n"
SourcesTag == "Sources:"
AnswerTokens == {"text", NL, SourcesTag}

MaxAnswer == 4    \* longest answer, in tokens
MaxSources == 2   \* longest sources array

RECURSIVE SeqsUpTo(_, _)
SeqsUpTo(S, n) ==
  IF n = 0 THEN {<<>>}
  ELSE LET shorter == SeqsUpTo(S, n - 1)
       IN shorter \cup { Append(q, x) : q \in shorter, x \in S }

SrcA == [title |-> "Pay gap narrows", link |-> "https://a.example/1",
         source |-> "Gleaner", date |-> "2024-03-08"]
SrcB == [title |-> "Women in parliament", link |-> "https://b.example/2",
         source |-> "Observer", date |-> "2023-11-25"]
ChatSources == {SrcA, SrcB}

\* new Date(date).toLocaleDateString('en-US', {year: 'numeric', month: 'long',
\* day: 'numeric'}), for a runtime whose time zone is UTC.
FormatDate(date) ==
  CASE date = "2024-03-08" -> "March 8, 2024"
    [] date = "2023-11-25" -> "November 25, 2023"
    [] OTHER -> "Invalid Date"

\* /\n*Sources:/ matches at position p.
MatchesAt(answer, p) ==
  \E k \in 0..(Len(answer) - p) :
    /\ \A j \in p..(p + k - 1) : answer[j] = NL
    /\ answer[p + k] = SourcesTag

\* Variant: the pattern without \n*.
MatchStartNoNewlines(answer) ==
  IF \E p \in 1..Len(answer) : answer[p] = SourcesTag
  THEN CHOOSE p \in 1..Len(answer) :
         /\ answer[p] = SourcesTag
         /\ \A q \in 1..(p - 1) : answer[q] # SourcesTag
  ELSE 0

\* Where the leftmost match of /\n*Sources:[\s\S]*$/ starts; 0 when the
\* pattern does not match.
MatchStart(answer) ==
  IF \E p \in 1..Len(answer) : MatchesAt(answer, p)
  THEN CHOOSE p \in 1..Len(answer) :
         /\ MatchesAt(answer, p)
         /\ \A q \in 1..(p - 1) : ~MatchesAt(answer, q)
  ELSE 0

\* answer.replace(/\n*Sources:[\s\S]*$/, '')
StripSources(answer) ==
  IF MatchStart(answer) = 0 THEN answer ELSE SubSeq(answer, 1, MatchStart(answer) - 1)

\* `[${source.title} (${source.source}, ${date})](${source.link})`
SourceEntry(src) ==
  <<"[", src.title, " (", src.source, ", ", FormatDate(src.date), ")](", src.link, ")">>

\* entries.join(sep)
RECURSIVE Join(_, _)
Join(entries, sep) ==
  IF Len(entries) = 0 THEN <<>>
  ELSE IF Len(entries) = 1 THEN entries[1]
  ELSE entries[1] \o sep \o Join(Tail(entries), sep)

SourcesList(sources) ==
  IF Len(sources) > 0
  THEN <<NL, NL, SourcesTag, NL, NL>> \o
       Join([i \in 1..Len(sources) |-> SourceEntry(sources[i])], <<NL, NL>>)
  ELSE <<>>

formatResponse(response) ==
  StripSources(response.response) \o SourcesList(response.sources)

\* formatResponse is applied to an answer and a sources array.
FormatInit ==
  /\ fmtResponse \in { ChatResponse(a, srcs, Null) :
                        a \in SeqsUpTo(AnswerTokens, MaxAnswer),
                        srcs \in SeqsUpTo(ChatSources, MaxSources) }
  /\ fmtOut = <<>> /\ fmtDone = FALSE

applyFormatResponse ==
  /\ ~fmtDone
  /\ fmtOut' = formatResponse(fmtResponse)
  /\ fmtDone' = TRUE
  /\ UNCHANGED <<fmtResponse, viewVars, pageVars, retryVars, sessionVars>>

NextFormat == applyFormatResponse

InitFormat ==
  ViewInit /\ issueLimit = MaxRequests /\ PagesIdle /\ RetryIdle /\ SessionInit /\ FormatInit

SpecFormat == InitFormat /\ [][NextFormat]_vars

\* ---------------------------------------------------------- chat session
MaxSends == 3     \* sends accepted per run

\* What the user types: nothing, blanks, a word, a word between blanks.
Texts == {<<>>, <<" ">>, <<"a">>, <<" ", "a", " ">>}

\* String.prototype.trim
RECURSIVE TrimLeft(_)
TrimLeft(s) == IF s # <<>> /\ s[1] = " " THEN TrimLeft(Tail(s)) ELSE s
RECURSIVE TrimRight(_)
TrimRight(s) ==
  IF s # <<>> /\ s[Len(s)] = " " THEN TrimRight(SubSeq(s, 1, Len(s) - 1)) ELSE s
Trim(s) == TrimRight(TrimLeft(s))

\* A value that is neither null nor the empty string.
Truthy(x) == x # Null /\ x # ""

\* Variant: the text is not trimmed before it is tested.
SendIgnoredNoTrim(text, loading) == text = <<>> \/ loading

\* Variant: the in-flight flag is not consulted.
SendIgnoredBlankOnly(text, loading) == Trim(text) = <<>>

\* !input.trim() || isLoading
SendIgnored(text, loading) == Trim(text) = <<>> \/ loading

\* The messages of the request body: the transcript of the handler's closure
\* with roles, then the text being sent.
ChatMessages(transcript, text) ==
  [i \in 1..Len(transcript) |->
     [role |-> IF transcript[i].type = "user" THEN "user" ELSE "assistant",
      content |-> transcript[i].content]]
  \o <<[role |-> "user", content |-> text]>>

\* Variant: the request asks for up to two resends.
ChatReqWithRetry(id, transcript, text, convId) ==
  [id |-> id, messages |-> ChatMessages(transcript, text), conversation_id |-> convId,
   retry |-> 2, retryCount |-> Undefined, sent |-> 1]

\* The request of handleSend: its body and the fields of its config that the
\* response interceptor reads (handleSend gives no retry limit).
ChatReq(id, transcript, text, convId) ==
  [id |-> id, messages |-> ChatMessages(transcript, text), conversation_id |-> convId,
   retry |-> Undefined, retryCount |-> Undefined, sent |-> 1]

\* Variant: the new message is put in front: [msg, ...prev].
AppendMessageInFront(prev, msg) == <<msg>> \o prev

\* setMessages(prev => [...prev, msg])
AppendMessage(prev, msg) == Append(prev, msg)

\* onChange of the input field.  The field and the send button are disabled
\* while isLoading; setInput and handleSend are followed for every call order
\* all the same, so that the guard of handleSend alone keeps sends apart.
setInput(text) ==
  /\ input' = text
  /\ chatOp' = ChatOp("setInput", 0, NoResponse, NoFail)
  /\ UNCHANGED <<messages, conversationId, chatIsLoading, chatInflight, chatNextId,
                 viewVars, pageVars, retryVars, formatVars>>

\* handleSend up to its await.
handleSend ==
  IF SendIgnored(input, chatIsLoading)
  THEN /\ chatOp' = ChatOp("sendIgnored", 0, NoResponse, NoFail)
       /\ UNCHANGED <<messages, input, conversationId, chatIsLoading, chatInflight,
                      chatNextId, viewVars, pageVars, retryVars, formatVars>>
  ELSE /\ chatNextId <= MaxSends
       /\ chatIsLoading' = TRUE
       /\ messages' = AppendMessage(messages, [type |-> "user", content |-> input])
       /\ input' = <<>>
       /\ chatInflight' = chatInflight \cup
            { ChatReq(chatNextId, messages, input, conversationId) }
       /\ chatNextId' = chatNextId + 1
       /\ chatOp' = ChatOp("send", chatNextId, NoResponse, NoFail)
       /\ UNCHANGED <<conversationId, viewVars, pageVars, retryVars, formatVars>>

\* The answers the chat endpoint is followed with.
SessionAnswers == { <<"text">>, <<"text", NL, NL, SourcesTag, NL, "text">> }
ConversationIds == {"conv-1", "conv-2"}
SessionResponses ==
  { ChatResponse(a, srcs, id) :
      a \in SessionAnswers, srcs \in {<<>>, <<SrcA>>}, id \in ConversationIds \cup {Null} }

\* Variant: every returned identifier is adopted.
AdoptAlways(held, returned) == Truthy(returned)

\* !conversationId && response.data.conversation_id, with the conversationId
\* of the handler's closure.
Adopt(held, returned) == ~Truthy(held) /\ Truthy(returned)

\* Success of the POST of handleSend: the handler after its await, then its
\* finally.
chatResolved(r, data) ==
  /\ r \in chatInflight
  /\ messages' = AppendMessage(messages, [type |-> "bot", content |-> formatResponse(data)])
  /\ conversationId' = IF Adopt(r.conversation_id, data.conversation_id)
                       THEN data.conversation_id ELSE conversationId
  /\ chatIsLoading' = FALSE
  /\ chatInflight' = chatInflight \ {r}
  /\ chatOp' = ChatOp("resolved", r.id, data, NoFail)
  /\ UNCHANGED <<input, chatNextId, viewVars, pageVars, retryVars, formatVars>>

MsgChatDefault == "Sorry, something went wrong. Please try again."
MsgChatTimeout == "The request took too long to complete. Please try again."
MsgChatNoConnection == "Error: Could not connect to the server. Please check your connection."

\* Variant: every failure gets the default text.
ErrorTextDefaultOnly(f) == <<MsgChatDefault>>

\* The text the catch block of handleSend builds for an axios error.
ErrorText(f) ==
  IF f.code = "ECONNABORTED" THEN <<MsgChatTimeout>>
  ELSE IF f.status # 0
       THEN <<"Error: ", IF f.detail # Null THEN f.detail ELSE f.message>>
  ELSE <<MsgChatNoConnection>>

\* The failures the chat endpoint is followed with: a timeout, no response,
\* an error response with a detail and one without.
SessionFailures == {ChatTimeout, NetworkDown, Http500, Http502}

\* A failed attempt.  Either the response interceptor gives up and rejects,
\* and the catch block and the finally of handleSend run; or it counts the
\* attempt, waits for the backoff delay and sends the request again.
chatFailed(r, f) ==
  /\ r \in chatInflight
  /\ IF GiveUp(r.retry, r.retryCount)
     THEN /\ messages' = AppendMessage(messages, [type |-> "bot", content |-> ErrorText(f)])
          /\ chatIsLoading' = FALSE
          /\ chatInflight' = chatInflight \ {r}
          /\ chatOp' = ChatOp("failed", r.id, NoResponse, f)
          /\ UNCHANGED waited
     ELSE LET count == (IF r.retryCount = Undefined THEN 0 ELSE r.retryCount) + 1 IN
          /\ waited' = Append(waited, Backoff(count))
          /\ chatInflight' = (chatInflight \ {r}) \cup
               { [r EXCEPT !.retryCount = count, !.sent = @ + 1] }
          /\ chatOp' = ChatOp("backoff", r.id, NoResponse, f)
          /\ UNCHANGED <<messages, chatIsLoading>>
  /\ UNCHANGED <<input, conversationId, chatNextId, viewVars, pageVars, cfgRetry, retryCount,
                 transmissions, attemptErrors, chatError, chatReq, formatVars>>

\* A 2xx response without a sources array: formatResponse throws a TypeError,
\* which is not an axios error.
chatMalformed(r) ==
  /\ r \in chatInflight
  /\ messages' = AppendMessage(messages, [type |-> "bot", content |-> <<MsgChatDefault>>])
  /\ chatIsLoading' = FALSE
  /\ chatInflight' = chatInflight \ {r}
  /\ chatOp' = ChatOp("malformed", r.id, NoResponse, NoFail)
  /\ UNCHANGED <<input, conversationId, chatNextId, viewVars, pageVars, retryVars,
                 formatVars>>

NextChat ==
  \/ \E text \in Texts : setInput(text)
  \/ handleSend
  \/ \E r \in chatInflight, data \in SessionResponses : chatResolved(r, data)
  \/ \E r \in chatInflight, f \in SessionFailures : chatFailed(r, f)
  \/ \E r \in chatInflight : chatMalformed(r)

InitChat ==
  ViewInit /\ issueLimit = MaxRequests /\ PagesIdle /\ RetryIdle /\ SessionInit /\ FormatIdle

SpecChat == InitChat /\ [][NextChat]_vars

\* ------------------------------------------- requests that all get settled
\* A user who searches and chats, with one text, one answer and one failure
\* per client (a timeout, which the search client retries once); every
\* request that is outstanding is settled in the end, by a response, an error
\* or the client's timeout.
MaxLiveRequests == 2  \* searches per run of these runs
LiveFailures == {Timeout}
LiveResponse == ChatResponse(<<"text">>, <<SrcA>>, "conv-1")

SearchSettles ==
  \E r \in inflight :
    /\ r.kind = "search"
    /\ \/ searchResolved(r, 1)
       \/ \E f \in LiveFailures : requestRetried(r, f)
       \/ \E f \in LiveFailures : requestFailed(r, f)

ChatSettles ==
  \E r \in chatInflight :
    \/ chatResolved(r, LiveResponse)
    \/ chatFailed(r, ChatTimeout)

NextLive ==
  \/ \E r \in inflight : countriesResolved(r, TRUE)
  \/ \E r \in inflight : dashboardsResolved(r, StoredDashboards)
  \/ handleSearch
  \/ SearchSettles
  \/ setInput(<<"a">>)
  \/ handleSend
  \/ ChatSettles

InitLive == ViewInit /\ issueLimit = MaxLiveRequests /\ PagesIdle /\ ChatIdle

SpecLive ==
  InitLive /\ [][NextLive]_vars /\ WF_vars(SearchSettles) /\ WF_vars(ChatSettles)

\* ================================================================== claims

\* C1: for every n with 1 <= n <= totalPages, changePage(n) sets currentPage
\* to n and issues a search request whose page parameter is n and whose
\* category, country and date parameters are the current, unchanged filter.
C1_ChangePageRequestsPageN ==
  (lastOp.op = "changePage" /\ 1 <= lastOp.n /\ lastOp.n <= totalPages) =>
    /\ currentPage = lastOp.n
    /\ \E r \in inflight :
         /\ r.id = lastOp.id
         /\ r.params.page = lastOp.n
         /\ r.params.category = selectedCategories
         /\ r.params.country = selectedCountries
         /\ r.params.start_date = toISOString(startDate)
         /\ r.params.end_date = toISOString(endDate)

\* C2: in every reachable state of the search view,
\* 1 <= currentPage <= max(totalPages, 1).
C2_CurrentPageWithinTotal ==
  1 <= currentPage /\ currentPage <= Max(totalPages, 1)

\* C3: on the search-path client every request is transmitted at most twice;
\* the second transmission happens exactly when the first attempt failed with
\* a timeout and the request was not yet marked as retried, in the same step
\* as that failure; any failure of the second transmission, and any first
\* failure that is not a timeout, is surfaced without a further transmission.
C3_Step ==
  /\ \A r \in inflight : \A q \in inflight' :
       (q.id = r.id /\ q.sent # r.sent) =>
         /\ q.sent = r.sent + 1 /\ r.sent = 1 /\ ~r.retry
         /\ lastOp'.op = "retried" /\ lastOp'.id = r.id
         /\ lastOp'.fail.code = "ECONNABORTED"
  /\ \A r \in inflight :
       (lastOp'.op \in {"retried", "failed"} /\ lastOp'.id = r.id) =>
         IF lastOp'.fail.code = "ECONNABORTED" /\ r.sent = 1
         THEN \E q \in inflight' : q.id = r.id /\ q.sent = 2
         ELSE \A q \in inflight' : q.id # r.id
C3_RetryAtMostOnce ==
  /\ [](\A r \in inflight : r.sent \in {1, 2} /\ (r.retry <=> r.sent = 2))
  /\ [][C3_Step]_vars
\* a second transmission has timed out as well and was surfaced
C3_Witness == lastOp.op = "failed" /\ lastOp.n = 2 /\ lastOp.fail = Timeout

\* The message the claim expects the view to hold for a failure.
C6_ClaimedMessage(f) ==
  IF f.status = 404 THEN MsgNotFound
  ELSE IF f.code = "ERR_NETWORK" /\ f.status = 0 THEN MsgNetwork
  ELSE IF f.status = 403 THEN MsgDenied
  ELSE IF f.detail # Null THEN f.detail
  ELSE f.message

\* C6: when a search request fails, the error string held by the search view
\* once the operation has completed is the classification message of the
\* failure kind (not found / unable to connect / access denied / the body's
\* error detail, else the raw transport message).
C6_ErrorIsClassification ==
  (lastOp.op = "failed" /\ lastOp.kind = "search") =>
    error = C6_ClaimedMessage(lastOp.fail)

\* C9: for every n < 1 or n > totalPages, changePage(n) is a no-op: no request
\* is sent and currentPage, totalPages, results, filter, error and loading
\* flag are unchanged.
C9_OutOfRangePageChangeIsNoOp ==
  [][ (lastOp'.op = "changePage" /\ (lastOp'.n < 1 \/ lastOp'.n > totalPages)) =>
        UNCHANGED <<inflight, nextId, currentPage, resultVars, filterVars, error,
                    isSearching>> ]_vars
\* a page change was asked with a page above the current total
C9_Witness ==
  /\ lastOp.op = "changePage" /\ lastOp.n > totalPages /\ totalPages > 1
  /\ inflight = {}

\* C10: whenever the category selection or the country selection is empty,
\* saveCurrentAsDashboard sends no request, reports the validation message in
\* the same step, and leaves the local dashboard list unchanged.
C10_SaveValidatesSelections ==
  [][ (lastOp'.op = "saveQuery" /\ (selectedCategories = {} \/ selectedCountries = {})) =>
        /\ alertMsg' = MsgSelectFirst
        /\ UNCHANGED <<inflight, nextId, savedDashboards>> ]_vars
\* a save was refused with categories chosen and no country chosen
C10_Witness ==
  /\ lastOp.op = "saveQuery" /\ selectedCategories # {} /\ selectedCountries = {}
  /\ alertMsg = MsgSelectFirst /\ lastOp.id = 0


\* C4: on the chat client a request with maximum retry count R that fails on
\* every attempt is resubmitted after each failure while its retry counter is
\* below R, so it is transmitted exactly R+1 times; when the counter has
\* reached R the failure propagates unmodified and the retry loop ends.
C4_BoundedRetries ==
  cfgRetry # Undefined =>
    /\ transmissions <= cfgRetry + 1
    /\ Len(waited) <= cfgRetry
    /\ chatReq = "waiting" => Len(attemptErrors) = transmissions /\ retryCount <= cfgRetry
    /\ chatReq # "rejected" => chatError = NoFail
    /\ chatReq = "rejected" =>
         /\ transmissions = cfgRetry + 1
         /\ Len(attemptErrors) = cfgRetry + 1
         /\ Len(waited) = cfgRetry
         /\ retryCount = (IF cfgRetry = 0 THEN Undefined ELSE cfgRetry)
         /\ chatError = attemptErrors[cfgRetry + 1]
\* a request with limit 3 has failed four times and was given up
C4_Witness ==
  cfgRetry = 3 /\ chatReq = "rejected" /\ transmissions = 4 /\ Len(attemptErrors) = 4

\* C5: the delay before the k-th retry of a chat-client request is
\* min(1000 * (2^k - 1), 10000) ms: 1000, 3000, 7000, 10000, 10000 for
\* k = 1..5, non-decreasing in k and never above 10000.
C5_Delays == <<1000, 3000, 7000, 10000, 10000>>
C5_BackoffSequence ==
  /\ Len(waited) = (IF retryCount = Undefined THEN 0 ELSE retryCount)
  /\ \A k \in 1..Len(waited) :
       /\ k <= 5 => waited[k] = C5_Delays[k]
       /\ waited[k] = (IF 1000 * (2 ^ k - 1) < 10000 THEN 1000 * (2 ^ k - 1) ELSE 10000)
       /\ waited[k] <= 10000
       /\ k > 1 => waited[k - 1] <= waited[k]
\* five retries have been waited for
C5_Witness == Len(waited) = 5 /\ waited = C5_Delays /\ retryCount = 5

\* Pages of getPageNumbers' result, without the dots.
PagesOf(out) == SelectSeq(out, LAMBDA x : x # Dots)
Elems(seq) == { seq[i] : i \in 1..Len(seq) }
Ascending(seq) == \A i \in 1..Len(seq) : \A j \in 1..Len(seq) : i < j => seq[i] < seq[j]
\* The pages the claim calls included: 1, t and c-2..c+2.
IncludedPages(c, t) == {1, t} \cup { p \in 1..t : c - 2 <= p /\ p <= c + 2 }
\* dots stand only between two pages, never first, last or doubled
DotsBetweenPages(out) ==
  \A i \in 1..Len(out) : out[i] = Dots =>
    /\ 1 < i /\ i < Len(out)
    /\ out[i - 1] # Dots /\ out[i + 1] # Dots

ShownPages(c, t) ==
  IncludedPages(c, t) \cup
    { p \in 1..t : p - 1 \in IncludedPages(c, t) /\ p + 1 \in IncludedPages(c, t) }

C8_PageNumbersShape ==
  (pgDone /\ 1 <= pgCurrent /\ pgCurrent <= pgTotal) =>
    /\ Ascending(PagesOf(pgOut))
    /\ Elems(PagesOf(pgOut)) \subseteq 1..pgTotal
    /\ 1 \in Elems(pgOut) /\ pgTotal \in Elems(pgOut)
    /\ \A p \in Max(1, pgCurrent - 2)..Min(pgTotal, pgCurrent + 2) : p \in Elems(pgOut)
    /\ DotsBetweenPages(pgOut)
\* a result with dots on both sides of the window
C8_Witness ==
  /\ pgDone /\ pgCurrent = 6 /\ pgTotal = 12
  /\ Len(SelectSeq(pgOut, LAMBDA x : x = Dots)) = 2

\* ------------------------------------------------ dashboards: list updates
\* The request a response step settled.
Settled(id) == CHOOSE r \in inflight : r.id = id

\* C11: the dashboard list changes only in a step in which a fetch, create or
\* rename succeeds, and a successful create makes it the list of the moment
\* before with the returned dashboard appended at the end.
C11_Step ==
  /\ savedDashboards' # savedDashboards =>
       lastOp'.op \in {"dashboardsResolved", "createResolved", "renameResolved"}
  /\ lastOp'.op = "createResolved" =>
       savedDashboards' = Append(savedDashboards, CreatedDash(Settled(lastOp'.id)))

C11_NoOptimisticUpdate == [][C11_Step]_vars

\* ------------------------------------------------------- loading a dashboard
\* The search parameters that carry the filter state, for page 1.
FilterParams ==
  [page |-> 1, page_size |-> PageSize,
   category |-> selectedCategories, country |-> selectedCountries,
   start_date |-> toISOString(startDate), end_date |-> toISOString(endDate)]

\* C12: right after loadDashboard(d) the selections are those of d and the
\* request it issued carries exactly the filter state: categories, countries,
\* start and end date, page 1 and page size 10.
C12_LoadRequestCarriesFilter ==
  lastOp.op = "loadDashboard" =>
    /\ \E i \in 1..Len(savedDashboards) :
         /\ savedDashboards[i]._id = lastOp.n
         /\ selectedCategories = savedDashboards[i].selected_keywords
         /\ selectedCountries = savedDashboards[i].selected_countries
    /\ \E r \in inflight : r.id = lastOp.id /\ r.params = FilterParams

\* C13: once the request of loadDashboard has been answered or has failed,
\* currentPage is 1.
C13_LoadResetsPage ==
  (lastOp.kind = "load" /\ lastOp.op \in {"loadResolved", "failed"}) => currentPage = 1

\* ------------------------------------------------------- a failed search
\* C14: the step in which a search request fails for good (a timeout only
\* after its one automatic retry) sets error to a string, leaves the result
\* list, the total count and the page count as they were, and ends the
\* search: the request is settled and the view is no longer searching.
C14_Step ==
  (lastOp'.op = "failed" /\ lastOp'.kind = "search" /\ lastOp' # lastOp) =>
    /\ error' # Null
    /\ UNCHANGED resultVars
    /\ isSearching' = FALSE
    /\ inflight' = inflight \ {Settled(lastOp'.id)}
    /\ lastOp'.fail = Timeout => lastOp'.n = 2

C14_FailedSearchKeepsResults == [][C14_Step]_vars

\* A search failed after its retry while earlier results were on display.
C14_Witness ==
  /\ lastOp.op = "failed" /\ lastOp.kind = "search" /\ lastOp.n = 2
  /\ searchResults # <<>> /\ totalArticles > 0
  /\ error # Null

\* ------------------------------------------------------------ clearing
\* C15: a step of handleClearSearch ends with empty selections, the date
\* range 2024-01-01 to 2024-12-31, no results, total count 0, one page,
\* current page 1 and no error, and leaves the saved dashboards as they were.
C15_Step ==
  lastOp'.op = "clear" =>
    /\ selectedCategories' = {} /\ selectedCountries' = {}
    /\ startDate' = "2024-01-01" /\ endDate' = "2024-12-31"
    /\ searchResults' = <<>> /\ totalArticles' = 0 /\ totalPages' = 1
    /\ currentPage' = 1
    /\ error' = Null
    /\ UNCHANGED savedDashboards

C15_ClearResetsSearch == [][C15_Step]_vars

\* The search was cleared with dashboards saved and while the request of a
\* page change was outstanding that had been made on page 2 of the results of
\* a loaded dashboard.
C15_Witness ==
  /\ lastOp.op = "clear"
  /\ currentPage = 1 /\ searchResults = <<>> /\ selectedCategories = {}
  /\ savedDashboards # <<>>
  /\ \E r \in inflight :
       r.kind = "search" /\ r.params.page = 2 /\ r.params.category # {}

\* ---------------------------------------------------------- chat session
chatState == <<messages, conversationId, input, chatIsLoading, chatInflight>>

\* C16: a send whose text is empty or blank, or that comes while a chat
\* request is in flight, is ignored (it is never accepted), and an ignored
\* send appends no message, sends no request and leaves the transcript, the
\* conversation identifier, the input text and the in-flight flag unchanged.
C16_Step ==
  /\ chatOp'.op = "send" =>
       Trim(input) # <<>> /\ ~chatIsLoading /\ chatInflight = {}
  /\ chatOp'.op = "sendIgnored" => UNCHANGED chatState

C16_IgnoredSendChangesNothing == [][C16_Step]_vars

\* A send was ignored while a request was in flight, with text in the field.
C16_Witness ==
  /\ chatOp.op = "sendIgnored"
  /\ chatIsLoading /\ Trim(input) # <<>>

\* C17: at most one chat request is outstanding, and isLoading of the chat
\* is true exactly while one is.
C17_SendsNeverOverlap ==
  /\ Cardinality(chatInflight) <= 1
  /\ chatIsLoading <=> chatInflight # {}

\* A second send came, with text, while the request of the second accepted
\* send was outstanding.
C17_Witness ==
  /\ Cardinality(chatInflight) = 1 /\ chatOp.op = "sendIgnored"
  /\ \E r \in chatInflight : r.id = 2
  /\ Trim(input) # <<>>

\* The chat request a response step settled.
ChatSettled(id) == CHOOSE r \in chatInflight : r.id = id

\* Texts a person can read: a non-empty sequence of non-empty strings.
Readable(content) ==
  /\ Len(content) > 0
  /\ \A i \in 1..Len(content) : content[i] # "" /\ content[i] # Null

\* C18: an accepted send appends the user message with the text of the field
\* and leaves its request outstanding; the step that settles the request
\* appends exactly one message, of the assistant, to the transcript: the
\* formatted answer on success, the timeout text on a timeout, "Error: " and
\* the detail or message of an error response, the connection text when no
\* response came; and it ends the send (flag cleared, request settled).
C18_Step ==
  /\ chatOp'.op = "send" =>
       /\ messages' = Append(messages, [type |-> "user", content |-> input])
       /\ \E r \in chatInflight' : r.id = chatOp'.id
  /\ chatOp'.op \in {"resolved", "failed", "malformed"} =>
       /\ Len(messages') = Len(messages) + 1
       /\ SubSeq(messages', 1, Len(messages)) = messages
       /\ Last(messages').type = "bot"
       /\ Readable(Last(messages').content) \/ chatOp'.op = "resolved"
       /\ ~chatIsLoading'
       /\ chatInflight' = chatInflight \ {ChatSettled(chatOp'.id)}
  /\ chatOp'.op = "resolved" =>
       Last(messages').content = formatResponse(chatOp'.data)
  /\ chatOp'.op = "failed" =>
       LET f == chatOp'.fail
           text == Last(messages').content
       IN /\ f.code = "ECONNABORTED" => text = <<MsgChatTimeout>>
          /\ (f.code # "ECONNABORTED" /\ f.status # 0) =>
               /\ text[1] = "Error: "
               /\ text[2] \in {f.detail, f.message}
          /\ (f.code # "ECONNABORTED" /\ f.status = 0) => text = <<MsgChatNoConnection>>

C18_OneAssistantMessagePerSend == [][C18_Step]_vars

\* The transcript after a send that was answered and a send that failed
\* with an error response.
C18_Witness ==
  /\ chatOp.op = "failed" /\ chatOp.fail.status # 0
  /\ Len(messages) = 5
  /\ messages[2].type = "user" /\ messages[3].type = "bot"
  /\ messages[4].type = "user" /\ messages[5].content[1] = "Error: "
  /\ ~chatIsLoading /\ chatInflight = {}

\* C19: the conversation identifier is null until a response carries one; a
\* request carries the identifier held when it is sent; the identifier
\* changes only from null to the identifier a successful response returned,
\* and never again.
C19_Step ==
  /\ chatOp'.op = "send" =>
       \E r \in chatInflight' : r.id = chatOp'.id /\ r.conversation_id = conversationId
  /\ conversationId' # conversationId =>
       /\ conversationId = Null
       /\ chatOp'.op = "resolved"
       /\ Truthy(chatOp'.data.conversation_id)
       /\ conversationId' = chatOp'.data.conversation_id
  /\ (chatOp'.op = "resolved" /\ conversationId = Null
        /\ Truthy(chatOp'.data.conversation_id)) =>
       conversationId' = chatOp'.data.conversation_id

C19_Held ==
  /\ conversationId \in ConversationIds \cup {Null}
  /\ \A r \in chatInflight : r.conversation_id = conversationId

C19_ConversationIdSticks == []C19_Held /\ [][C19_Step]_vars

\* conv-1 was adopted, and a later response that returned conv-2 left it.
C19_Witness ==
  /\ conversationId = "conv-1"
  /\ chatOp.op = "resolved" /\ chatOp.data.conversation_id = "conv-2"
  /\ chatOp.id >= 2

\* ------------------------------------------------------- formatResponse
\* Where "Sources:" first occurs in an answer; 0 when it does not.
FirstTag(answer) ==
  IF \E p \in 1..Len(answer) : answer[p] = SourcesTag
  THEN CHOOSE p \in 1..Len(answer) :
         answer[p] = SourcesTag /\ \A q \in 1..(p - 1) : answer[q] # SourcesTag
  ELSE 0

\* The longest prefix of a text that does not end with a line break.
RECURSIVE DropTrailingNewlines(_)
DropTrailingNewlines(s) ==
  IF s # <<>> /\ s[Len(s)] = NL THEN DropTrailingNewlines(SubSeq(s, 1, Len(s) - 1)) ELSE s

\* The answer text before the inline block: the block runs from the first
\* "Sources:", with the line breaks before it, to the end of the answer.
BeforeBlock(answer) ==
  IF FirstTag(answer) = 0 THEN answer
  ELSE DropTrailingNewlines(SubSeq(answer, 1, FirstTag(answer) - 1))

Count(s, x) == Cardinality({ i \in 1..Len(s) : s[i] = x })

\* C20: the formatted message is the answer text before its inline block,
\* unchanged, followed by nothing when the sources array is empty and
\* otherwise by two line breaks, "Sources:", two line breaks and one markdown
\* entry per source, in array order, two line breaks apart; "Sources:"
\* occurs in it only as the heading of the regenerated block.
C20_FormattedMessage ==
  fmtDone =>
    LET answer == fmtResponse.response
        sources == fmtResponse.sources
        n == Len(sources)
        kept == BeforeBlock(answer)
        block == SubSeq(fmtOut, Len(kept) + 1, Len(fmtOut))
    IN /\ Len(fmtOut) >= Len(kept)
       /\ SubSeq(fmtOut, 1, Len(kept)) = kept
       /\ Count(fmtOut, SourcesTag) = (IF n = 0 THEN 0 ELSE 1)
       /\ n = 0 => block = <<>>
       /\ n > 0 =>
            /\ Len(block) = 5 + 9 * n + 2 * (n - 1)
            /\ SubSeq(block, 1, 5) = <<NL, NL, SourcesTag, NL, NL>>
            /\ Count(block, "[") = n
            /\ \A i \in 1..n :
                 LET at == 5 + 11 * (i - 1) IN
                 /\ SubSeq(block, at + 1, at + 9) =
                      <<"[", sources[i].title, " (", sources[i].source, ", ",
                        FormatDate(sources[i].date), ")](", sources[i].link, ")">>
                 /\ i < n => SubSeq(block, at + 10, at + 11) = <<NL, NL>>

\* An answer with text, line breaks and an inline block was formatted with
\* two sources.
C20_Witness ==
  /\ fmtDone
  /\ fmtResponse.response = <<"text", NL, SourcesTag, "text">>
  /\ fmtResponse.sources = <<SrcB, SrcA>>
  /\ fmtOut[1] = "text" /\ fmtOut[2] = NL /\ fmtOut[4] = SourcesTag
  /\ Len(fmtOut) = 26

\* ------------------------------------------------- overlapping searches
\* The article-search requests among a set of requests.
Searches(reqs) == { r \in reqs : r.kind \in {"search", "load"} }

\* C21: a step that starts an article search leaves every outstanding request
\* outstanding and puts its own request next to them; a step in which an
\* article search succeeds settles that request only and makes the result
\* list, the page count and the total count those of its response, whichever
\* request was issued first.
C21_Step ==
  /\ lastOp'.op \in {"search", "changePage", "loadDashboard"} =>
       /\ inflight \subseteq inflight'
       /\ lastOp'.id # 0 => \E r \in inflight' \ inflight : r.id = lastOp'.id
  /\ lastOp'.op \in {"searchResolved", "loadResolved"} =>
       LET r == Settled(lastOp'.id) IN
       /\ inflight' = inflight \ {r}
       /\ \E tp \in 0..MaxPages :
            /\ totalPages' = tp
            /\ totalArticles' = tp * PageSize
            /\ searchResults' =
                 (IF r.params.page \in 1..tp THEN <<r.params.page>> ELSE <<>>)

C21_LastResponseWins == [][C21_Step]_vars

\* Of two overlapping searches the one issued first was answered last: the
\* later one (a dashboard load, never cleared since) was answered without a
\* failure, and the results are those of the earlier one.
C21_Witness ==
  /\ lastOp.op = "searchResolved" /\ lastOp.id + 1 < nextId
  /\ Searches(inflight) = {}
  /\ error = Null /\ selectedCategories # {}
  /\ totalPages = 2 /\ currentPage = 1

\* ------------------------------------------------- renaming a dashboard
\* C22: a successful rename of dashboard id replaces the entry of the list
\* whose _id is id by the returned dashboard, leaves the length, the order
\* and every other entry of the list as they were, and leaves edit mode; a
\* failed rename leaves the list as it was; cancelling sends no request and
\* leaves the list as it was.
C22_Step ==
  /\ lastOp'.op = "renameResolved" =>
       LET r == Settled(lastOp'.id)
           id == r.params.dashboard_id
       IN /\ Len(savedDashboards') = Len(savedDashboards)
          /\ \A k \in 1..Len(savedDashboards) :
               savedDashboards'[k] =
                 (IF savedDashboards[k]._id = id
                  THEN [savedDashboards[k] EXCEPT !.dashboard_name = r.params.dashboard_name]
                  ELSE savedDashboards[k])
          /\ editingDashboardId' = NoId /\ editingName' = ""
  /\ (lastOp'.op = "failed" /\ lastOp'.kind = "rename") => UNCHANGED savedDashboards
  /\ lastOp'.op = "editCancel" => UNCHANGED <<savedDashboards, inflight, nextId>>

C22_RenameReplacesOneEntry == [][C22_Step]_vars

\* ------------------------------------------------------- the transcript
IsPrefix(s, t) == Len(s) <= Len(t) /\ SubSeq(t, 1, Len(s)) = s

\* C23: in every step the transcript of before is a prefix of the transcript
\* of after.
C23_Step == IsPrefix(messages, messages')

C23_TranscriptAppendOnly == [][C23_Step]_vars

\* Three sends were accepted and settled, the last one by a failure.
C23_Witness ==
  /\ Len(messages) = 7 /\ chatOp.op = "failed"
  /\ \A k \in 1..3 : messages[2 * k].type = "user" /\ messages[2 * k + 1].type = "bot"

\* ------------------------------------------------------ no fatal failure
\* C24: when every outstanding request gets settled, a chat that is waiting
\* for its answer gets back to idle (flag cleared, nothing outstanding), and
\* a view that is searching stops searching, so that the next send and the
\* next search pass their guards.
C24_NoFailureIsFatal ==
  /\ chatIsLoading ~> (~chatIsLoading /\ chatInflight = {})
  /\ isSearching ~> ~isSearching

\* A search and a send have both failed, and both flags are cleared.
C24_Witness ==
  /\ lastOp.op = "failed" /\ lastOp.kind = "search" /\ ~isSearching
  /\ chatOp.op = "failed" /\ ~chatIsLoading /\ chatInflight = {}


\* ----------------------------------------------- independent mount fetches
\* C25: a step that settles the dashboard-list fetch, by its response, by
\* its resend or by its failure, leaves the search error message, the search
\* loading flag, the result list, the total count and the page state
\* unchanged.
C25_Step ==
  (lastOp'.kind = "dashboards" /\ lastOp' # lastOp) =>
    /\ UNCHANGED error
    /\ UNCHANGED isSearching
    /\ UNCHANGED resultVars
    /\ UNCHANGED currentPage

C25_DashboardFetchIsIndependent == [][C25_Step]_vars


\* ------------------------------------------------- the search loading flag
\* C26: isSearching is true exactly in the states in which a request issued
\* by handleSearch, handlePageChange or loadDashboard is outstanding, also
\* when two such requests overlap.
C26_SearchingIffOutstanding == isSearching <=> (Searches(inflight) # {})


\* ------------------------------------------- the error after a good search
\* C27: when the response of a search started by handleSearch arrives right
\* after the step that sent the request, be it the click or the automatic
\* resend after a timeout, the error message is null afterwards.
C27_Step ==
  ( /\ lastOp'.op = "searchResolved" /\ lastOp'.id = lastOp.id
    /\ \/ lastOp.op = "search"
       \/ lastOp.op = "retried" /\ lastOp.kind = "search" ) =>
    error' = Null

C27_GoodSearchClearsError == [][C27_Step]_vars


\* -------------------------------------------------- one attempt per send
\* C28: the request of a send carries no retry limit and is transmitted
\* once; no step of the chat client waits for a backoff delay or sends a
\* request again, and the step in which an attempt fails removes the request
\* and appends the assistant's error message.
C28_Step ==
  /\ \A r \in chatInflight' : r.retry = Undefined /\ r.sent = 1
  /\ waited' = <<>>
  /\ chatOp'.op # "backoff"
  /\ (chatOp'.fail # NoFail /\ chatOp' # chatOp) =>
       /\ chatOp'.op = "failed"
       /\ ChatSettled(chatOp'.id).sent = 1
       /\ chatInflight' = chatInflight \ {ChatSettled(chatOp'.id)}
       /\ messages' = Append(messages, [type |-> "bot", content |-> ErrorText(chatOp'.fail)])

C28_SendTransmitsOnce == [][C28_Step]_vars

\* A send whose only attempt timed out, with the error message on display.
C28_Witness ==
  /\ chatOp.op = "failed" /\ chatOp.fail = ChatTimeout
  /\ Last(messages).content = <<MsgChatTimeout>>
  /\ waited = <<>> /\ chatInflight = {}


\* ------------------------------------------- overlapping dashboard updates
\* The requests that write the dashboard list and wait for their response.
ListWriters(reqs) == { r \in reqs : r.kind \in {"dashboards", "create", "rename"} }

\* What creates and renames have put into a list: the entries that the
\* backend did not hold at the start.
Updated(list) == { i \in 1..Len(list) : list[i] \notin Elems(StoredDashboards) }

\* C29: when the last outstanding create or rename succeeds, the list still
\* holds every dashboard that an earlier create returned and every entry
\* that an earlier rename returned, each as it was (but for the one this
\* response renames): no update is lost, also when the requests overlapped.
C29_Step ==
  ( /\ lastOp'.op \in {"createResolved", "renameResolved"}
    /\ lastOp' # lastOp
    /\ ListWriters(inflight') = {} ) =>
    \A i \in Updated(savedDashboards) :
      \E j \in 1..Len(savedDashboards') :
        /\ savedDashboards'[j]._id = savedDashboards[i]._id
        /\ \/ savedDashboards'[j] = savedDashboards[i]
           \/ /\ lastOp'.op = "renameResolved"
              /\ Settled(lastOp'.id).params.dashboard_id = savedDashboards[i]._id

C29_NoLostDashboardUpdate == [][C29_Step]_vars


\* --------------------------------------------- clearing during a search
\* The steps in which the user starts an article search.
StartsSearch(op) == op \in {"search", "changePage", "loadDashboard"}

\* C30: the step that follows handleClearSearch, unless it starts a new
\* search, page change or dashboard load, leaves the result list empty, the
\* total count 0 and the page state at page 1 of 1, also when it is the
\* response of a search that was outstanding when the form was cleared.
C30_Step ==
  (lastOp.op = "clear" /\ ~StartsSearch(lastOp'.op)) =>
    /\ searchResults' = <<>>
    /\ totalArticles' = 0
    /\ totalPages' = 1 /\ currentPage' = 1

C30_ClearedStaysCleared == [][C30_Step]_vars

=============================================================================
